---- MODULE Spec2Model ----
(***************************************************************************)
(* Model of the skin-lesion classification service:                        *)
(*   - skin_lesion_classifier.py: the process-wide registries _models,     *)
(*     _models_loaded, _temp_dirs, the lazy loader, the scratch-directory  *)
(*     cleanup, predict and cleanup;                                       *)
(*   - image_converter.py: ImageConverter (format validation, colour-mode  *)
(*     flattening, conversion to PNG, process_image).                      *)
(* Library calls (zipfile, tempfile, shutil, keras, PIL) are modelled by   *)
(* their outcomes, chosen by the environment at each call.                 *)
(* The first definition of _ensure_model_loaded (lines 65-82) is shadowed  *)
(* by the second (lines 84-112) and, with _extract_model_from_zip, never   *)
(* runs: the model follows the second.                                     *)
(***************************************************************************)
EXTENDS Integers, Sequences, FiniteSets, TLC

(***************************************************************************)
(* Bounds of the model.                                                    *)
(***************************************************************************)
\* number of model handles tf.keras.models.load_model may hand out in a run
MaxLoads == 2
\* number of scratch directories tempfile.mkdtemp may create in a run
MaxDirs == 2

(***************************************************************************)
(* skin_lesion_classifier.py                                               *)
(***************************************************************************)
VARIABLES
    _models,          \* name -> model handle (keys present only)
    _models_loaded,   \* name -> BOOLEAN (keys present only)
    _temp_dirs,       \* name -> scratch directory (keys present only)
    disk,             \* scratch directories that exist on the filesystem
    nextDir,          \* directories created so far by mkdtemp
    nextHandle,       \* handles created so far by load_model
    extractCount,     \* name -> calls of extractall made for it (history)
    rmtreeFailed,     \* directories whose shutil.rmtree raised (history)
    lastOp,           \* the operation that ran last and how it ended
    prediction,       \* raw output vector of the last forward pass
    results           \* mapping returned by the last predict call

clsVars == <<_models, _models_loaded, _temp_dirs, disk, nextDir, nextHandle,
             extractCount, rmtreeFailed, lastOp, prediction, results>>

(***************************************************************************)
(* image_converter.py                                                      *)
(***************************************************************************)
VARIABLES
    SUPPORTED_FORMATS,  \* the class attribute ImageConverter.SUPPORTED_FORMATS
    pillow_heif,        \* whether the package pillow_heif can be imported:
                        \* "unknown" until the first import finds out
    heic_supported,     \* self.heic_supported (FALSE before construction)
    constructed,        \* ImageConverter objects constructed so far
    processed,          \* the last process_image call: its input and outcome
    raised,             \* the failures process_image has raised (history)
    rgbIn,              \* the argument of the last _ensure_rgb_mode call
    rgbOut              \* the image it returned

imgVars == <<SUPPORTED_FORMATS, pillow_heif, heic_supported, constructed,
             processed, raised>>

rgbVars == <<rgbIn, rgbOut>>

(***************************************************************************)
(* Callers of _ensure_model_loaded running in parallel                     *)
(***************************************************************************)
VARIABLES
    callers,        \* thread -> where its loader call stands and its locals
    extractedDirs   \* directories extractall has written the archive into

thrVars == <<callers, extractedDirs>>

vars == <<clsVars, imgVars, rgbVars, thrVars>>

\* the model names the loader is called with: the implicit default, a name
\* that is the path of an archive, a name that is the path of a model file
ModelNames == {"default", "user.keras.zip", "plain.keras"}

DEFAULT_MODEL_ZIP == "BCN20000.keras.zip"

\* MODEL_CONFIGS = {}
MODEL_CONFIGS == [n \in {} |-> ""]

\* str.endswith('.zip') on the paths the model uses
EndsWithZip(path) == path \in {"BCN20000.keras.zip", "user.keras.zip"}

\* _ensure_model_loaded, lines 92-97: the path a model name stands for
ModelPath(model_name) ==
    IF model_name \in DOMAIN MODEL_CONFIGS THEN MODEL_CONFIGS[model_name]
    ELSE IF model_name = "default" THEN DEFAULT_MODEL_ZIP
    ELSE model_name

EmptyMap == [n \in {} |-> 0]

\* dict.pop(key, None) / dict without a key
DictPop(d, key) == [k \in (DOMAIN d) \ {key} |-> d[k]]

\* d[key] = value
DictSet(d, key, value) == [k \in (DOMAIN d) \cup {key} |-> IF k = key THEN value ELSE d[k]]

\* what the filesystem and the libraries answer during one loader call
AllLoadEnvs ==
    [archive_exists : BOOLEAN,   \* zipfile.ZipFile(model_path) opens
     has_keras      : BOOLEAN,   \* the archive holds a *.keras file
     file_exists    : BOOLEAN,   \* os.path.exists of a plain model path
     deserializes   : BOOLEAN,   \* tf.keras.models.load_model returns
     rmtree_ok      : BOOLEAN]   \* shutil.rmtree returns without raising

\* the answers that differ in what the loader does: at most one thing is
\* wrong, and rmtree only matters when something is
LoadEnvs ==
    {e \in AllLoadEnvs :
        LET wrong == {f \in {"archive_exists", "has_keras", "file_exists", "deserializes"} : ~e[f]}
        IN  Cardinality(wrong) <= 1 /\ (wrong = {} => e.rmtree_ok)}

\* the argument None of _cleanup_temp_files
None == "None"

\* the registries and the filesystem, as one value the operations transform
Registry ==
    [models |-> _models, loaded |-> _models_loaded, temp_dirs |-> _temp_dirs,
     disk |-> disk, nextDir |-> nextDir, nextHandle |-> nextHandle,
     extractCount |-> extractCount, rmtreeFailed |-> rmtreeFailed]

\* _cleanup_temp_files(model_name): remove the scratch directory of one name,
\* or of every name when model_name is None.  shutil.rmtree raises for the
\* directories in undeletable; the code logs a warning and goes on.
CleanupTempFiles(r, model_name, undeletable) ==
    IF model_name # None
    THEN LET temp_dir == IF model_name \in DOMAIN r.temp_dirs
                         THEN r.temp_dirs[model_name] ELSE 0
             tried == IF temp_dir # 0 /\ temp_dir \in r.disk THEN {temp_dir} ELSE {}
         IN  [r EXCEPT !.disk = @ \ (tried \ undeletable),
                       !.rmtreeFailed = @ \cup (tried \cap undeletable),
                       !.temp_dirs = DictPop(r.temp_dirs, model_name)]
    ELSE LET tried == {r.temp_dirs[n] : n \in DOMAIN r.temp_dirs} \cap r.disk
         IN  [r EXCEPT !.disk = @ \ (tried \ undeletable),
                       !.rmtreeFailed = @ \cup (tried \cap undeletable),
                       !.temp_dirs = EmptyMap]

\* _extract_model_if_zipped(model_path, model_name): the registry afterwards,
\* whether it raised, and whether the path it returns exists
ExtractModelIfZipped(r, model_path, model_name, env) ==
    IF EndsWithZip(model_path)
    THEN LET fresh == model_name \notin DOMAIN r.temp_dirs
                      \/ r.temp_dirs[model_name] = 0
             r1 == IF fresh
                   THEN [r EXCEPT !.nextDir = r.nextDir + 1,
                                  !.temp_dirs = DictSet(r.temp_dirs, model_name, r.nextDir + 1),
                                  !.disk = r.disk \cup {r.nextDir + 1}]
                   ELSE r
             r2 == [r1 EXCEPT !.extractCount[model_name] = @ + 1,
                              !.disk = @ \cup {r1.temp_dirs[model_name]}]
         IN  IF ~env.archive_exists
             THEN [reg |-> r1, raised |-> TRUE, exists |-> FALSE]
             ELSE IF ~env.has_keras
             THEN [reg |-> r2, raised |-> TRUE, exists |-> FALSE]
             ELSE [reg |-> r2, raised |-> FALSE, exists |-> TRUE]
    ELSE [reg |-> r, raised |-> FALSE, exists |-> env.file_exists]

\* the early return left out: every call loads
IsLoaded_NoEarlyReturn(r, model_name) == FALSE

\* _ensure_model_loaded, line 89: the early return
IsLoaded(r, model_name) ==
    /\ model_name \in DOMAIN r.loaded
    /\ r.loaded[model_name]
    /\ model_name \in DOMAIN r.models
    /\ r.models[model_name] # 0

\* the handler calling _cleanup_temp_files() without the model name, as the
\* shadowed first definition of _ensure_model_loaded does (line 81)
LoadFailed_CleanupEveryName(r, model_name, env, loads) ==
    [reg |-> CleanupTempFiles(r, None,
                              IF env.rmtree_ok THEN {} ELSE 1..r.nextDir),
     outcome |-> "raise", loads |-> loads]

\* the handler of a failed load when the loaded flag is set before load_model
\* is called instead of after it (lines 105-106 in the other order)
LoadFailed_LeavesMarked(r, model_name, env, loads) ==
    LET c == CleanupTempFiles(r, model_name,
                              IF env.rmtree_ok THEN {} ELSE 1..r.nextDir)
    IN  [reg |-> [c EXCEPT !.loaded = DictSet(c.loaded, model_name, TRUE)],
         outcome |-> "raise", loads |-> loads]

\* _ensure_model_loaded, lines 109-112: the handler of a failed load
LoadFailed(r, model_name, env, loads) ==
    [reg |-> CleanupTempFiles(r, model_name,
                              IF env.rmtree_ok THEN {} ELSE 1..r.nextDir),
     outcome |-> "raise", loads |-> loads]

\* _ensure_model_loaded(model_name): the registry afterwards, "ok" or
\* "raise", and the number of load_model calls it made
EnsureModelLoaded(r, model_name, env) ==
    IF IsLoaded(r, model_name)
    THEN [reg |-> r, outcome |-> "ok", loads |-> 0]
    ELSE LET x == ExtractModelIfZipped(r, ModelPath(model_name), model_name, env)
             done == [x.reg EXCEPT
                        !.nextHandle = @ + 1,
                        !.models = DictSet(x.reg.models, model_name, x.reg.nextHandle + 1),
                        !.loaded = DictSet(x.reg.loaded, model_name, TRUE)]
         IN  IF x.raised \/ ~x.exists
             THEN LoadFailed(x.reg, model_name, env, 0)
             ELSE IF ~env.deserializes
             THEN LoadFailed(x.reg, model_name, env, 1)
             ELSE [reg |-> done, outcome |-> "ok", loads |-> 1]

\* cleanup() that forgets _models.clear()
CleanupAll_KeepsModels(r, undeletable) ==
    [CleanupTempFiles(r, None, undeletable) EXCEPT !.loaded = EmptyMap]

\* cleanup(): drop every scratch directory, every model, every loaded flag
CleanupAll(r, undeletable) ==
    [CleanupTempFiles(r, None, undeletable) EXCEPT !.models = EmptyMap,
                                                   !.loaded = EmptyMap]

\* the registry r written back to the variables
SetRegistry(r) ==
    /\ _models' = r.models
    /\ _models_loaded' = r.loaded
    /\ _temp_dirs' = r.temp_dirs
    /\ disk' = r.disk
    /\ nextDir' = r.nextDir
    /\ nextHandle' = r.nextHandle
    /\ extractCount' = r.extractCount
    /\ rmtreeFailed' = r.rmtreeFailed

\* the run stays within the bounds on fresh directories and handles
WithinBounds == nextDir < MaxDirs /\ nextHandle < MaxLoads

(***************************************************************************)
(* predict                                                                 *)
(***************************************************************************)
CLASS_NAMES ==
    <<"nevus", "melanoma", "other", "squamous cell carcinoma", "solar lentigo",
      "basal cell carcinoma", "melanoma metastasis", "seborrheic keratosis",
      "actinic keratosis", "dermatofibroma", "scar", "vascular lesion">>

\* Probabilities are counted in ten-thousandths (7004 is 0.7004); a rounded
\* probability is counted in thousandths (700 is 0.700).
\* round(x, 3): to the nearest thousandth, a tie to the even one
Round3(x) ==
    LET q == x \div 10
        rem == x % 10
    IN  IF rem < 5 THEN q
        ELSE IF rem > 5 THEN q + 1
        ELSE IF q % 2 = 0 THEN q ELSE q + 1

\* the raw output vectors the predictor may return: one element short of the
\* label list, as long as it, one element longer
\* (704 * i rounds down for some i and up for others, never on a tie)
RawOutputs ==
    {[i \in 1..n |-> 704 * i] :
        n \in {Len(CLASS_NAMES) - 1, Len(CLASS_NAMES), Len(CLASS_NAMES) + 1}}

\* what the predictor does in the forward pass
Forward ==
    {[raises |-> TRUE, out |-> <<>>]} \cup {[raises |-> FALSE, out |-> v] : v \in RawOutputs}

\* the value taken from the element after position i
ResultEntry_OffByOne(pred, i) == Round3(pred[(i % Len(pred)) + 1])

\* predict, line 167: the value stored for the label at position i
ResultEntry(pred, i) == Round3(pred[i])

\* predict, lines 165-167: the loop over CLASS_NAMES; prediction[0][i] raises
\* IndexError past the end of the output vector
RECURSIVE PredictLoop(_, _, _)
PredictLoop(pred, i, acc) ==
    IF i > Len(CLASS_NAMES) THEN [raised |-> FALSE, results |-> acc]
    ELSE IF i > Len(pred) THEN [raised |-> TRUE, results |-> EmptyMap]
    ELSE PredictLoop(pred, i + 1, DictSet(acc, CLASS_NAMES[i], ResultEntry(pred, i)))

\* the record of an operation: which one, for which model name, how it ended
\* ("ok" or "raise"), how the loader call inside it ended, how many load_model
\* calls it made, what the forward pass did, and whether it repeats the
\* loader call of the operation right before it (that one loaded the name)
Op(op, name, outcome, loader, loads, fwd) ==
    [op |-> op, name |-> name, outcome |-> outcome, loader |-> loader,
     loads |-> loads, fwd |-> fwd,
     repeat |-> /\ loader # "notcalled"
                /\ lastOp.loader = "ok" /\ lastOp.loads = 1 /\ lastOp.name = name]

(***************************************************************************)
(* The operations of the classifier                                        *)
(***************************************************************************)
\* SkinLesionClassifier._ensure_model_loaded(model_name)
EnsureLoaded(model_name, env) ==
    /\ IsLoaded(Registry, model_name) \/ WithinBounds
    /\ LET e == EnsureModelLoaded(Registry, model_name, env)
       IN  /\ SetRegistry(e.reg)
           /\ lastOp' = Op("ensure", model_name, e.outcome, e.outcome, e.loads, "notcalled")
    /\ UNCHANGED <<prediction, results, imgVars, rgbVars, thrVars>>

\* SkinLesionClassifier.predict(image): image_ok is whether preprocess_image
\* returns, fwd is what the model's forward pass does
Predict(env, image_ok, fwd) ==
    /\ IsLoaded(Registry, "default") \/ WithinBounds
    /\ LET e == EnsureModelLoaded(Registry, "default", env)
           missing == "default" \notin DOMAIN e.reg.models
                      \/ e.reg.models["default"] = 0
           reached == e.outcome = "ok" /\ ~missing /\ image_ok
           loop == IF reached /\ ~fwd.raises
                   THEN PredictLoop(fwd.out, 1, EmptyMap)
                   ELSE [raised |-> TRUE, results |-> EmptyMap]
       IN  /\ SetRegistry(e.reg)
           /\ prediction' = IF reached THEN fwd.out ELSE <<>>
           /\ results' = loop.results
           /\ lastOp' = Op("predict", "default",
                           IF loop.raised THEN "raise" ELSE "ok", e.outcome, e.loads,
                           IF ~reached THEN "notcalled"
                           ELSE IF fwd.raises THEN "raise" ELSE "return")
    /\ UNCHANGED <<imgVars, rgbVars, thrVars>>

\* SkinLesionClassifier.cleanup()
Cleanup(undeletable) ==
    /\ SetRegistry(CleanupAll(Registry, undeletable))
    /\ lastOp' = Op("cleanup", None, "ok", "notcalled", 0, "notcalled")
    /\ UNCHANGED <<prediction, results, imgVars, rgbVars, thrVars>>

NoOp ==
    [op |-> "none", name |-> None, outcome |-> "none", loader |-> "notcalled",
     loads |-> 0, fwd |-> "notcalled", repeat |-> FALSE]

(***************************************************************************)
(* ImageConverter                                                          *)
(***************************************************************************)
\* widest image handed to _ensure_rgb_mode (the images are one row high)
MaxWidth == 2
\* ImageConverter objects constructed in a run
MaxConverters == 2

\* the formats PIL may report for an uploaded file
AllFormats == {"PNG", "JPEG", "MPO", "HEIF", "HEIC", "BMP", "GIF"}

\* the colour modes: RGB, with alpha, grey with alpha, paletted, "other" (grey)
Modes == {"RGB", "RGBA", "LA", "P", "L"}

White == <<255, 255, 255>>
Colors == {<<0, 0, 0>>, White, <<200, 100, 50>>}
Alphas == {0, 128, 255}
Greys == {0, 90, 255}

\* the palette of the paletted images, with transparency: index -> RGBA
Palette == <<<<0, 0, 0, 255>>, <<200, 100, 50, 0>>, <<200, 100, 50, 128>>>>

\* the pixel values of each mode
PixelsOf(mode) ==
    CASE mode = "RGB"  -> Colors
      [] mode = "RGBA" -> {<<c[1], c[2], c[3], a>> : c \in Colors, a \in Alphas}
      [] mode = "LA"   -> {<<l, a>> : l \in Greys, a \in Alphas}
      [] mode = "P"    -> 1..Len(Palette)
      [] mode = "L"    -> {<<l>> : l \in Greys}

\* a PIL image: what the code reads of it
Image(format, mode, size, pixels, n_frames) ==
    [format |-> format, mode |-> mode, size |-> size, pixels |-> pixels,
     n_frames |-> n_frames]

NoImage == Image(None, None, <<0, 0>>, <<>>, 0)

\* the images _ensure_rgb_mode is called with
Images ==
    UNION {{Image("PNG", mode, <<w, 1>>, px, 1) : px \in [1..w -> PixelsOf(mode)]} :
              mode \in Modes, w \in 1..MaxWidth}

\* Image.new('RGB', size, color)
ImageNew(mode, size, color) ==
    Image(None, mode, size, [k \in 1..(size[1] * size[2]) |-> color], 1)

\* Image.convert(mode) of one pixel, for the conversions the code asks for
ConvertPixel(from, to, px) ==
    CASE from = "P" /\ to = "RGBA"   -> Palette[px]
      [] from = "P" /\ to = "RGB"    -> <<Palette[px][1], Palette[px][2], Palette[px][3]>>
      [] from = "L" /\ to = "RGB"    -> <<px[1], px[1], px[1]>>
      [] from = "LA" /\ to = "RGB"   -> <<px[1], px[1], px[1]>>
      [] from = "RGBA" /\ to = "RGB" -> <<px[1], px[2], px[3]>>
      [] from = to                   -> px

\* Image.convert(mode)
Convert(img, mode) ==
    Image(None, mode, img.size,
          [k \in DOMAIN img.pixels |-> ConvertPixel(img.mode, mode, img.pixels[k])], 1)

\* PIL's division by 255 with rounding: ((x + 128) >> 8) + (x + 128)) >> 8
Div255(x) == (((x + 128) \div 256) + (x + 128)) \div 256

\* PIL's BLEND(mask, in1, in2) of one channel
Blend(mask, in1, in2) == Div255(in1 * (255 - mask) + in2 * mask)

NoMask == <<>>

\* the RGB bytes PIL keeps in memory for a pixel of an RGBA or LA image
StoredRGB(mode, px) ==
    IF mode = "LA" THEN <<px[1], px[1], px[1]>> ELSE <<px[1], px[2], px[3]>>

\* background.paste(img, mask=mask) on an RGB background of the same size:
\* a blend by the mask, or a plain overwrite when there is no mask
Paste(background, img, mask) ==
    [background EXCEPT !.pixels =
        [k \in DOMAIN background.pixels |->
            LET src == StoredRGB(img.mode, img.pixels[k])
                dst == background.pixels[k]
            IN  IF mask = NoMask THEN src
                ELSE <<Blend(mask[k], dst[1], src[1]),
                       Blend(mask[k], dst[2], src[2]),
                       Blend(mask[k], dst[3], src[3])>>]]

\* the paste made without the alpha mask
MaskFor_NoMask(img) == NoMask

\* _ensure_rgb_mode, line 75: img.split()[-1] if img.mode == 'RGBA' else None
MaskFor(img) ==
    IF img.mode = "RGBA"
    THEN [k \in DOMAIN img.pixels |-> img.pixels[k][4]]
    ELSE NoMask

\* ImageConverter._ensure_rgb_mode(img)
EnsureRgbMode(img) ==
    IF img.mode = "RGB" THEN img
    ELSE IF img.mode \in {"RGBA", "LA", "P"}
    THEN LET background == ImageNew("RGB", img.size, White)
             img1 == IF img.mode = "P" THEN Convert(img, "RGBA") ELSE img
         IN  IF img1.mode \in {"RGBA", "LA"}
             THEN Paste(background, img1, MaskFor(img1))
             ELSE Convert(img1, "RGB")
    ELSE Convert(img, "RGB")

\* img.save(png_buffer, format='PNG') and Image.open(png_buffer): PNG is
\* lossless, the reopened image has format PNG and one frame
SaveAsPng(img) == Image("PNG", img.mode, img.size, img.pixels, 1)

\* ImageConverter.convert_mpo_to_png(img): frame 0, flattened, as PNG
ConvertMpoToPng(img) == SaveAsPng(EnsureRgbMode([img EXCEPT !.n_frames = 1]))

\* was_converted compared with the wrong format
WasConverted_Jpeg(original_format) == original_format # "JPEG"

\* convert_to_png, line 109
WasConverted(original_format) == original_format # "PNG"

\* ImageConverter.convert_to_png(img, original_format)
ConvertToPng(img, original_format) ==
    [image |-> IF img.format = "MPO" THEN ConvertMpoToPng(img)
               ELSE SaveAsPng(EnsureRgbMode(img)),
     was_converted |-> WasConverted(original_format)]

\* ImageConverter.validate_format(img): img.format in self.SUPPORTED_FORMATS
ValidateFormat(format) ==
    \E i \in 1..Len(SUPPORTED_FORMATS) : SUPPORTED_FORMATS[i] = format

\* ImageConverter.get_supported_formats_message(): the message, as the list
\* of the items it separates by ", "
GetSupportedFormatsMessage ==
    IF heic_supported
    THEN <<"PNG", "JPEG", "HEIC/HEIF (iPhone photos)">>
    ELSE <<"PNG", "JPEG">>

\* an uploaded file: whether its container is recognised, whether verify()
\* accepts it, what reading its pixel data does, and the image it holds
Blob(container_ok, verifies, data, image) ==
    [container_ok |-> container_ok, verifies |-> verifies, data |-> data,
     image |-> image]

\* one image of each mode
SamplePixels(mode) ==
    CASE mode = "RGB"  -> <<<<200, 100, 50>>>>
      [] mode = "RGBA" -> <<<<200, 100, 50, 128>>>>
      [] mode = "LA"   -> <<<<90, 128>>>>
      [] mode = "P"    -> <<2>>
      [] mode = "L"    -> <<<<90>>>>

\* the frame counts of a format: only an MPO file holds several frames
FramesOf(format) == IF format = "MPO" THEN {1, 2} ELSE {1}

\* the uploads: bytes that are no image; containers of every format that fail
\* verify(); images of every format whose pixel data raises OSError (a
\* truncated file) or ValueError when read; valid images of every format,
\* mode and frame count
Blobs ==
    {Blob(FALSE, FALSE, "ok", NoImage)}
    \cup {Blob(TRUE, FALSE, "ok", Image(f, "RGB", <<1, 1>>, SamplePixels("RGB"), 1)) :
            f \in AllFormats}
    \cup {Blob(TRUE, TRUE, d, Image(f, "RGB", <<1, 1>>, SamplePixels("RGB"), 1)) :
            d \in {"OSError", "ValueError"}, f \in AllFormats}
    \cup UNION {{Blob(TRUE, TRUE, "ok", Image(f, m, <<1, 1>>, SamplePixels(m), n)) :
                   m \in Modes, n \in FramesOf(f)} : f \in AllFormats}

\* the outcome of a process_image call
Processed(blob, kind, etype, text, listed, cause, image, original_format, was_converted) ==
    [blob |-> blob, kind |-> kind, etype |-> etype, text |-> text,
     listed |-> listed, cause |-> cause, image |-> image,
     original_format |-> original_format, was_converted |-> was_converted]

NotProcessed ==
    Processed(Blob(FALSE, FALSE, "ok", NoImage), "none", None, None, <<>>, None,
              NoImage, None, FALSE)

\* process_image raising etype with a message that starts with text
Raise(blob, etype, text, listed, cause) ==
    Processed(blob, "raise", etype, text, listed, cause, NoImage, None, FALSE)

\* ImageConverter.process_image(file_content)
ProcessImageResult(blob) ==
    LET opens == blob.container_ok
                 /\ (blob.image.format \in {"HEIF", "HEIC"} => heic_supported)
        img == blob.image
        original_format == img.format
        conv == ConvertToPng(img, original_format)
    IN  IF ~opens \/ ~blob.verifies
        THEN Raise(blob, "Exception", "Invalid image file: ", <<>>, "decode")
        ELSE IF ~ValidateFormat(img.format)
        THEN Raise(blob, "ValueError", "Unsupported image format: ",
                   GetSupportedFormatsMessage, "unsupported")
        ELSE IF blob.data = "ValueError"
        THEN Raise(blob, "ValueError", "library message", <<>>, "convert")
        ELSE IF blob.data # "ok"
        THEN Raise(blob, "Exception", "Invalid image file: ", <<>>, "convert")
        ELSE Processed(blob, "ok", None, None, <<>>, None, conv.image,
                       original_format, conv.was_converted)

\* what a caller can tell of a failure: the exception type and the message
Observed(p) == [cause |-> p.cause, etype |-> p.etype, text |-> p.text]

\* ImageConverter(): __init__ and _setup_heic_support; available is whether
\* the import of pillow_heif succeeds
ConverterInit(available) ==
    /\ constructed < MaxConverters
    /\ pillow_heif \in {"unknown", IF available THEN "present" ELSE "absent"}
    /\ pillow_heif' = IF available THEN "present" ELSE "absent"
    /\ heic_supported' = available
    /\ SUPPORTED_FORMATS' = IF available
                            THEN SUPPORTED_FORMATS \o <<"HEIF", "HEIC">>
                            ELSE SUPPORTED_FORMATS
    /\ constructed' = constructed + 1
    /\ UNCHANGED <<processed, raised, clsVars, rgbVars, thrVars>>

\* image_converter.process_image(file_content)
ProcessImage(blob) ==
    /\ constructed >= 1
    /\ processed' = ProcessImageResult(blob)
    /\ raised' = IF processed'.kind = "raise"
                 THEN raised \cup {Observed(processed')} ELSE raised
    /\ UNCHANGED <<SUPPORTED_FORMATS, pillow_heif, heic_supported, constructed,
                   clsVars, rgbVars, thrVars>>

\* a call of _ensure_rgb_mode(img)
EnsureRgbModeCall(img) ==
    /\ rgbIn' = img
    /\ rgbOut' = EnsureRgbMode(img)
    /\ UNCHANGED <<clsVars, imgVars, thrVars>>

InitConverter ==
    /\ SUPPORTED_FORMATS = <<"PNG", "JPEG", "MPO">>
    /\ pillow_heif = "unknown"
    /\ heic_supported = FALSE
    /\ constructed = 0
    /\ processed = NotProcessed
    /\ raised = {}
    /\ rgbIn = NoImage
    /\ rgbOut = NoImage

(***************************************************************************)
(* _ensure_model_loaded called from several threads.  The module takes no  *)
(* lock, so a thread switch may fall between any two statements; a step    *)
(* below is one statement of one caller.  The callers are predict calls:   *)
(* they ask for the default model (line 160).                              *)
(***************************************************************************)
\* threads calling the loader in a run
MaxCallers == 2

Callers == 1..MaxCallers

\* the model name of predict's loader call, line 160
DefaultName == "default"

\* a thread that is not inside a loader call
Idle == [pc |-> "idle", dir |-> 0, handle |-> 0, extracted |-> FALSE,
         loadCalled |-> FALSE]

\* caller t goes to statement pc
Goto(t, pc) == callers' = [callers EXCEPT ![t].pc = pc]

\* the statement of caller t raises: control goes to the handler, line 109
RaiseIn(t) == Goto(t, "l109")

\* a thread enters _ensure_model_loaded, line 85
Call(t) ==
    /\ callers[t].pc = "idle"
    /\ callers' = [callers EXCEPT ![t] = [Idle EXCEPT !.pc = "l89"]]
    /\ UNCHANGED <<clsVars, imgVars, rgbVars, extractedDirs>>

\* line 89: return early when the model is loaded, else go on to the load
CheckLoaded(t) ==
    /\ callers[t].pc = "l89"
    /\ IF IsLoaded(Registry, DefaultName)
       THEN callers' = [callers EXCEPT ![t] = Idle]
       ELSE Goto(t, IF EndsWithZip(ModelPath(DefaultName)) THEN "l29" ELSE "l102")
    /\ UNCHANGED <<clsVars, imgVars, rgbVars, extractedDirs>>

\* _extract_model_if_zipped, line 29: is a scratch directory registered?
CheckTempDir(t) ==
    /\ callers[t].pc = "l29"
    /\ Goto(t, IF DefaultName \notin DOMAIN _temp_dirs \/ _temp_dirs[DefaultName] = 0
               THEN "l30" ELSE "l31")
    /\ UNCHANGED <<clsVars, imgVars, rgbVars, extractedDirs>>

\* line 30: create a scratch directory and register it
Mkdtemp(t) ==
    /\ callers[t].pc = "l30"
    /\ nextDir < MaxDirs
    /\ nextDir' = nextDir + 1
    /\ _temp_dirs' = DictSet(_temp_dirs, DefaultName, nextDir + 1)
    /\ disk' = disk \cup {nextDir + 1}
    /\ Goto(t, "l31")
    /\ UNCHANGED <<_models, _models_loaded, nextHandle, extractCount, rmtreeFailed,
                   lastOp, prediction, results, imgVars, rgbVars, extractedDirs>>

\* lines 31-32: open the archive and extract it into the registered
\* directory; _temp_dirs[model_name] raises KeyError when another caller's
\* cleanup has removed the key
Extractall(t, archive_exists) ==
    /\ callers[t].pc = "l31"
    /\ IF archive_exists /\ DefaultName \in DOMAIN _temp_dirs
       THEN LET d == _temp_dirs[DefaultName]
            IN  /\ disk' = disk \cup {d}
                /\ extractedDirs' = extractedDirs \cup {d}
                /\ extractCount' = [extractCount EXCEPT ![DefaultName] = @ + 1]
                /\ callers' = [callers EXCEPT ![t].pc = "l33", ![t].dir = d,
                                              ![t].extracted = TRUE]
       ELSE RaiseIn(t) /\ UNCHANGED <<disk, extractedDirs, extractCount>>
    /\ UNCHANGED <<_models, _models_loaded, _temp_dirs, nextDir, nextHandle,
                   rmtreeFailed, lastOp, prediction, results, imgVars, rgbVars>>

\* lines 33-37: look for a *.keras file under the registered directory, read
\* from _temp_dirs again; a directory that was deleted or never extracted
\* into holds none
Walk(t, has_keras) ==
    /\ callers[t].pc = "l33"
    /\ IF /\ DefaultName \in DOMAIN _temp_dirs
          /\ _temp_dirs[DefaultName] \in disk \cap extractedDirs
          /\ has_keras
       THEN callers' = [callers EXCEPT ![t].pc = "l102",
                                       ![t].dir = _temp_dirs[DefaultName]]
       ELSE RaiseIn(t)
    /\ UNCHANGED <<clsVars, imgVars, rgbVars, extractedDirs>>

\* line 102: os.path.exists(actual_model_path)
PathExists(t) ==
    /\ callers[t].pc = "l102"
    /\ IF callers[t].dir \in disk THEN Goto(t, "l105") ELSE RaiseIn(t)
    /\ UNCHANGED <<clsVars, imgVars, rgbVars, extractedDirs>>

\* line 105: load_model(actual_model_path) and the store into _models
LoadModel(t, deserializes) ==
    /\ callers[t].pc = "l105"
    /\ IF callers[t].dir \in disk /\ deserializes
       THEN /\ nextHandle < MaxLoads
            /\ nextHandle' = nextHandle + 1
            /\ _models' = DictSet(_models, DefaultName, nextHandle + 1)
            /\ callers' = [callers EXCEPT ![t].pc = "l106",
                                          ![t].handle = nextHandle + 1,
                                          ![t].loadCalled = TRUE]
       ELSE /\ callers' = [callers EXCEPT ![t].pc = "l109", ![t].loadCalled = TRUE]
            /\ UNCHANGED <<nextHandle, _models>>
    /\ UNCHANGED <<_models_loaded, _temp_dirs, disk, nextDir, extractCount,
                   rmtreeFailed, lastOp, prediction, results, imgVars, rgbVars,
                   extractedDirs>>

\* line 106: mark the model loaded, and return
MarkLoaded(t) ==
    /\ callers[t].pc = "l106"
    /\ _models_loaded' = DictSet(_models_loaded, DefaultName, TRUE)
    /\ callers' = [callers EXCEPT ![t] = Idle]
    /\ UNCHANGED <<_models, _temp_dirs, disk, nextDir, nextHandle, extractCount,
                   rmtreeFailed, lastOp, prediction, results, imgVars, rgbVars,
                   extractedDirs>>

\* lines 109-112: the handler cleans the name's scratch directory up and
\* raises again
HandleFailure(t, rmtree_ok) ==
    /\ callers[t].pc = "l109"
    /\ SetRegistry(CleanupTempFiles(Registry, DefaultName,
                                    IF rmtree_ok THEN {} ELSE 1..nextDir))
    /\ callers' = [callers EXCEPT ![t] = Idle]
    /\ UNCHANGED <<lastOp, prediction, results, imgVars, rgbVars, extractedDirs>>

InitCallers ==
    /\ callers = [t \in Callers |-> Idle]
    /\ extractedDirs = {}

InitClassifier ==
    /\ _models = EmptyMap
    /\ _models_loaded = EmptyMap
    /\ _temp_dirs = EmptyMap
    /\ disk = {}
    /\ nextDir = 0
    /\ nextHandle = 0
    /\ extractCount = [n \in ModelNames |-> 0]
    /\ rmtreeFailed = {}
    /\ lastOp = NoOp
    /\ prediction = <<>>
    /\ results = EmptyMap

Init == InitClassifier /\ InitConverter /\ InitCallers

\* the answers of the environment a loader call for model_name can read: none
\* when the early return is taken
EnvsFor(model_name) ==
    IF IsLoaded(Registry, model_name)
    THEN {e \in LoadEnvs : \A f \in DOMAIN e : e[f]}
    ELSE LoadEnvs

Next ==
    \/ \E model_name \in ModelNames :
          \E env \in EnvsFor(model_name) : EnsureLoaded(model_name, env)
    \/ \E env \in EnvsFor("default"), image_ok \in BOOLEAN, fwd \in Forward :
          Predict(env, image_ok, fwd)
    \/ \E undeletable \in SUBSET (1..nextDir) : Cleanup(undeletable)

Spec == Init /\ [][Next]_vars

\* the format normalizer: construction and process_image calls
NextImg ==
    \/ \E available \in BOOLEAN : ConverterInit(available)
    \/ \E blob \in Blobs : ProcessImage(blob)

SpecImg == Init /\ [][NextImg]_vars

\* calls of _ensure_rgb_mode
NextRgb == \E img \in Images : EnsureRgbModeCall(img)

SpecRgb == Init /\ [][NextRgb]_vars

\* a process in which cleanup() is never called
NextNoCleanup ==
    \/ \E model_name \in ModelNames :
          \E env \in EnvsFor(model_name) : EnsureLoaded(model_name, env)
    \/ \E env \in EnvsFor("default"), image_ok \in BOOLEAN, fwd \in Forward :
          Predict(env, image_ok, fwd)

SpecNoCleanup == Init /\ [][NextNoCleanup]_vars

\* a process whose threads call the loader in parallel
NextThreads ==
    \E t \in Callers :
        \/ Call(t)
        \/ CheckLoaded(t)
        \/ CheckTempDir(t)
        \/ Mkdtemp(t)
        \/ \E archive_exists \in BOOLEAN : Extractall(t, archive_exists)
        \/ \E has_keras \in BOOLEAN : Walk(t, has_keras)
        \/ PathExists(t)
        \/ \E deserializes \in BOOLEAN : LoadModel(t, deserializes)
        \/ MarkLoaded(t)
        \/ \E rmtree_ok \in BOOLEAN : HandleFailure(t, rmtree_ok)

SpecThreads == Init /\ [][NextThreads]_vars

(***************************************************************************)
(* Properties of the classifier                                            *)
(***************************************************************************)
registries == <<_models, _models_loaded, _temp_dirs, disk>>

\* the scratch directories registered for the names in S
DirsOf(td, S) == {td[n] : n \in S \cap DOMAIN td}

\* model_name is marked loaded
MarkedLoaded(model_name) ==
    model_name \in DOMAIN _models_loaded /\ _models_loaded[model_name]

\* C1: a loader call that directly follows a successful loader call for the
\* same model name, one that loaded it, makes no load_model call, succeeds and
\* changes nothing in the registries: the same handle stays registered.
C1_SecondCallIsNoOp ==
    [][lastOp'.repeat =>
          /\ lastOp'.loads = 0
          /\ lastOp'.loader = "ok"
          /\ _models' = _models
          /\ lastOp'.name \in DOMAIN _models
          /\ UNCHANGED <<registries, nextDir, nextHandle, extractCount>>]_vars

\* a loader call was made right after the loader call that loaded its name
C1_Witness ==
    /\ lastOp.op = "ensure" /\ lastOp.repeat
    /\ lastOp.outcome = "ok" /\ lastOp.loads = 0
    /\ lastOp.name \in DOMAIN _models

\* the loader call of the step (made directly or by predict) failed, for
\* model name m
LoaderFailedFor(m) == lastOp'.loader = "raise" /\ lastOp'.name = m

\* what a failed loader call for m leaves apart from the deletion itself: m is
\* unregistered and not loaded, the other names are as they were
FailureLeaves(m) ==
    /\ m \notin DOMAIN _temp_dirs'
    /\ m \notin DOMAIN _models'
    /\ ~MarkedLoaded(m)'
    /\ \A n \in ModelNames \ {m} :
          /\ (n \in DOMAIN _temp_dirs) = (n \in DOMAIN _temp_dirs')
          /\ n \in DOMAIN _temp_dirs => _temp_dirs'[n] = _temp_dirs[n]
          /\ (n \in DOMAIN _models) = (n \in DOMAIN _models')
          /\ n \in DOMAIN _models => _models'[n] = _models[n]
          /\ MarkedLoaded(n) = MarkedLoaded(n)'
    /\ DirsOf(_temp_dirs, ModelNames \ {m}) \cap disk
         = DirsOf(_temp_dirs, ModelNames \ {m}) \cap disk'

\* the scratch directories of m that the failing call created or found
ScratchOf(m) == DirsOf(_temp_dirs, {m}) \cup ((nextDir + 1)..nextDir')

\* C2 as stated: when a loader call fails, every scratch directory created
\* for its model name is deleted and unregistered, the name is not loaded, and
\* the other names' directories and models are unchanged.
C2_FailureCleansUp_AsStated ==
    [][\A m \in ModelNames : LoaderFailedFor(m) =>
          FailureLeaves(m) /\ ScratchOf(m) \cap disk' = {}]_vars

\* C2 amended: ... every scratch directory created for its model name is
\* unregistered, and deleted unless shutil.rmtree raised for it (the code logs
\* that and goes on); the name is not loaded; the other names are unchanged.
C2_FailureCleansUp ==
    [][\A m \in ModelNames : LoaderFailedFor(m) =>
          FailureLeaves(m) /\ ScratchOf(m) \cap disk' \subseteq rmtreeFailed']_vars

\* a loader call failed after it had created a scratch directory, which is
\* gone, while another name is loaded with its scratch directory in place
C2_Witness ==
    /\ lastOp.op = "ensure" /\ lastOp.outcome = "raise"
    /\ nextDir = 2 /\ disk = {1}
    /\ \E n \in ModelNames \ {lastOp.name} :
          n \in DOMAIN _models /\ n \in DOMAIN _temp_dirs

\* C3 as stated: after cleanup() no model is registered, no name is marked
\* loaded, and no scratch directory is registered or left on disk.
C3_CleanupReleasesAll_AsStated ==
    lastOp.op = "cleanup" =>
        /\ _models = EmptyMap
        /\ _models_loaded = EmptyMap
        /\ _temp_dirs = EmptyMap
        /\ disk = {}

\* C3 amended: after cleanup() no model is registered, no name is marked
\* loaded, no scratch directory is registered, and the only scratch
\* directories left on disk are those for which shutil.rmtree raised.
C3_CleanupReleasesAll ==
    lastOp.op = "cleanup" =>
        /\ _models = EmptyMap
        /\ _models_loaded = EmptyMap
        /\ _temp_dirs = EmptyMap
        /\ disk \subseteq rmtreeFailed

\* cleanup() ran after two models had been loaded from archives, and removed
\* both scratch directories
C3_Witness ==
    /\ lastOp.op = "cleanup"
    /\ nextHandle = 2 /\ nextDir = 2 /\ disk = {}
    /\ _models = EmptyMap

NumClasses == 12

\* the labels as a set
ClassLabels == {CLASS_NAMES[i] : i \in 1..Len(CLASS_NAMES)}

\* C8: a successful predict returns a mapping whose keys are exactly the 12
\* class labels, and the value of the label at position i is the rounding of
\* element i of the raw output vector.
C8_PositionalMapping ==
    (lastOp.op = "predict" /\ lastOp.outcome = "ok") =>
        /\ DOMAIN results = ClassLabels
        /\ Cardinality(DOMAIN results) = NumClasses
        /\ \A i \in 1..NumClasses : results[CLASS_NAMES[i]] = Round3(prediction[i])

\* predict returned a mapping for an output vector of 12 distinct elements
C8_Witness ==
    /\ lastOp.op = "predict" /\ lastOp.outcome = "ok"
    /\ Len(prediction) = NumClasses
    /\ \A i, j \in 1..NumClasses : i # j => Round3(prediction[i]) # Round3(prediction[j])
    /\ results # EmptyMap

\* C9: predict fails, and returns no mapping, whenever the forward pass raises
\* or returns a vector whose length is not 12.
C9_BadOutputFails ==
    (lastOp.op = "predict"
        /\ (lastOp.fwd = "raise"
             \/ (lastOp.fwd = "return" /\ Len(prediction) # NumClasses))) =>
        lastOp.outcome = "raise" /\ results = EmptyMap

\* C10 as stated: while cleanup() is never called, extraction happens at most
\* once per model name, and a loaded name keeps its scratch directory
\* registered and on disk.
C10_ExtractOnce_AsStated ==
    \A m \in ModelNames :
        /\ extractCount[m] <= 1
        /\ (m \in DOMAIN _models /\ EndsWithZip(ModelPath(m))) =>
              (m \in DOMAIN _temp_dirs /\ _temp_dirs[m] \in disk)

\* C10 amended: while cleanup() is never called, a loader call extracts at
\* most once, and never for a name that has been loaded (a failed load
\* unregisters its scratch directory and a later call extracts again, into a
\* new one); a loaded name keeps its scratch directory registered and on disk.
C10_ExtractOnce ==
    [][\A m \in ModelNames :
          /\ extractCount'[m] <= extractCount[m] + 1
          /\ (m \in DOMAIN _models /\ EndsWithZip(ModelPath(m))) =>
                /\ extractCount'[m] = extractCount[m]
                /\ m \in DOMAIN _temp_dirs /\ m \in DOMAIN _temp_dirs'
                /\ _temp_dirs'[m] = _temp_dirs[m]
                /\ _temp_dirs[m] \in disk /\ _temp_dirs'[m] \in disk']_vars

\* a name was loaded from its archive at the second extraction, after a
\* failed first attempt, and a later loader call for it has returned
C10_Witness ==
    /\ lastOp.repeat /\ lastOp.outcome = "ok"
    /\ extractCount[lastOp.name] = 2
    /\ lastOp.name \in DOMAIN _temp_dirs /\ _temp_dirs[lastOp.name] \in disk

(***************************************************************************)
(* Properties of the format normalizer                                     *)
(***************************************************************************)
\* the formats an item of the supported-formats message names
FormatsNamed(item) ==
    IF item = "HEIC/HEIF (iPhone photos)" THEN {"HEIC", "HEIF"} ELSE {item}

\* the formats a supported-formats message lists
ListedFormats(message) == UNION {FormatsNamed(message[i]) : i \in DOMAIN message}

\* the upload decodes and verifies with the decoders that are registered
Decodes(blob) ==
    /\ blob.container_ok /\ blob.verifies
    /\ blob.image.format \in {"HEIF", "HEIC"} => pillow_heif = "present"

\* the upload is a valid image: it decodes, verifies, and its data reads
ValidImage(blob) == Decodes(blob) /\ blob.data = "ok"

\* C4: for a valid image whose format validation rejects, process_image
\* raises the unsupported-format failure, and the formats its message lists
\* are exactly the formats validate_format accepts.
C4_MessageListsAcceptedFormats ==
    (processed.kind # "none" /\ ValidImage(processed.blob)
        /\ ~ValidateFormat(processed.blob.image.format)) =>
        /\ processed.kind = "raise" /\ processed.cause = "unsupported"
        /\ processed.etype = "ValueError"
        /\ ListedFormats(processed.listed) = {f \in AllFormats : ValidateFormat(f)}

\* C5: for bytes that do not decode or verify, process_image raises and
\* returns no image, and what it raises (exception type and message prefix)
\* differs from what it raises for an unsupported format and from what it
\* raises for an unexpected error later in the pipeline.
C5_DecodeFailureIsDistinct ==
    /\ (processed.kind # "none" /\ ~Decodes(processed.blob)) =>
          (processed.kind = "raise" /\ processed.image = NoImage)
    /\ \A a, b \in raised :
          (a.cause = "decode" /\ b.cause # "decode") =>
              <<a.etype, a.text>> # <<b.etype, b.text>>

\* the SupportedFormatSet of the specification
SupportedFormatSet ==
    {"PNG", "JPEG", "MPO"}
    \cup (IF pillow_heif = "present" THEN {"HEIF", "HEIC"} ELSE {})

\* C6: for every format F of the SupportedFormatSet, process_image on a valid
\* image of format F returns a PNG image, originalFormat = F and
\* wasConverted = (F # PNG).
C6_SupportedFormatsNormalize ==
    (processed.kind # "none" /\ ValidImage(processed.blob)
        /\ processed.blob.image.format \in SupportedFormatSet) =>
        /\ processed.kind = "ok"
        /\ processed.image.format = "PNG"
        /\ processed.original_format = processed.blob.image.format
        /\ processed.was_converted = (processed.blob.image.format # "PNG")

\* valid images of a format that process_image converts and of PNG itself:
\* a two-frame MPO upload was normalized
C6_Witness ==
    /\ processed.kind = "ok"
    /\ processed.original_format = "MPO" /\ processed.blob.image.n_frames = 2
    /\ processed.was_converted /\ processed.image.format = "PNG"

\* C7: _ensure_rgb_mode returns an RGB image of the same size for every mode;
\* for an RGBA input a pixel of alpha 0 comes out white and a pixel of alpha
\* 255 comes out with the input's RGB values.
C7_OpaqueRgb ==
    rgbIn # NoImage =>
        /\ rgbOut.mode = "RGB"
        /\ rgbOut.size = rgbIn.size
        /\ DOMAIN rgbOut.pixels = DOMAIN rgbIn.pixels
        /\ \A k \in DOMAIN rgbOut.pixels : Len(rgbOut.pixels[k]) = 3
        /\ rgbIn.mode = "RGBA" =>
              \A k \in DOMAIN rgbIn.pixels :
                  LET px == rgbIn.pixels[k]
                  IN  /\ px[4] = 0 => rgbOut.pixels[k] = White
                      /\ px[4] = 255 => rgbOut.pixels[k] = <<px[1], px[2], px[3]>>

\* an RGBA image with a transparent pixel that is not white and an opaque
\* pixel that is not white was flattened
C7_Witness ==
    /\ rgbIn.mode = "RGBA" /\ rgbOut.mode = "RGB"
    /\ rgbIn.pixels = <<<<200, 100, 50, 0>>, <<0, 0, 0, 255>>>>
    /\ rgbOut.pixels = <<White, <<0, 0, 0>>>>

\* C12: once the first ImageConverter has been constructed, no process_image
\* call and no later construction changes the shared SUPPORTED_FORMATS list,
\* neither the formats in it nor its contents.
C12_SupportedFormatsFixed ==
    [][constructed >= 1 => SUPPORTED_FORMATS' = SUPPORTED_FORMATS]_vars

\* the step makes a loader call for model name m (directly or from predict)
LoaderCalledFor(m) == lastOp'.loader # "notcalled" /\ lastOp'.name = m

\* the loader call of the step returned early: it succeeded without calling
\* load_model
ReturnedEarly == lastOp'.loader = "ok" /\ lastOp'.loads = 0

\* C13: in every reachable state a model name marked loaded has a non-null
\* handle in _models; a failed loader call leaves its name not marked loaded,
\* the name stays unmarked until a loader call for it loads it, and a loader
\* call for a name that is not marked loaded attempts the load instead of
\* returning early.
C13_LoadedHasHandle ==
    /\ [](\A m \in ModelNames :
            MarkedLoaded(m) => m \in DOMAIN _models /\ _models[m] # 0)
    /\ [][\A m \in ModelNames :
            /\ LoaderFailedFor(m) => ~MarkedLoaded(m)'
            /\ ~MarkedLoaded(m) /\ MarkedLoaded(m)' =>
                  LoaderCalledFor(m) /\ lastOp'.loader = "ok" /\ lastOp'.loads = 1
            /\ LoaderCalledFor(m) /\ ~MarkedLoaded(m) => ~ReturnedEarly]_vars

\* a loader call loaded an archive's model at the second extraction of the
\* archive, and no model had been loaded before: the first attempt had failed
C13_Witness ==
    /\ lastOp.loader = "ok" /\ lastOp.loads = 1
    /\ extractCount[lastOp.name] = 2
    /\ nextHandle = 1
    /\ MarkedLoaded(lastOp.name)
    /\ _models[lastOp.name] = 1

\* caller t is inside a loader call
InCall(t) == callers[t].pc # "idle"

\* C11: of the callers that are inside the loader at the same time, one at
\* most extracts the archive and one at most calls load_model; a caller that
\* has loaded the model holds the handle registered in _models; and the
\* scratch directory a caller extracted into or loads from still exists, no
\* other caller's failure cleanup has deleted it.
C11_ConcurrentLoadOnce ==
    /\ \A t, u \in Callers :
          t # u /\ InCall(t) /\ InCall(u) =>
             /\ ~(callers[t].extracted /\ callers[u].extracted)
             /\ ~(callers[t].loadCalled /\ callers[u].loadCalled)
    /\ \A t \in Callers :
          /\ callers[t].pc = "l106" => _models[DefaultName] = callers[t].handle
          /\ callers[t].pc \in {"l33", "l102", "l105"} => callers[t].dir \in disk

====
